---- MODULE Spec2Model ----
(***************************************************************************)
(* Model of the Clear Night Sky MCP server (src/src/index.ts): the tool    *)
(* dispatcher, argument validation, the two sequential fetches of each     *)
(* operation and the clear-sky window analysis.                            *)
(*                                                                         *)
(* JavaScript numbers are modelled as records [t |-> "number", v |-> n]    *)
(* where n is TWICE the number, so that the half-integers the validators   *)
(* accept (3.5 is v = 7) and the scorer's 0.5 weight stay integers.        *)
(***************************************************************************)
EXTENDS Integers, Sequences, FiniteSets, TLC

VARIABLES pc, toolName, rawArgs, parsed, pointsResp, seriesResp,
          fetchLog, analysis, responses, fault, exited,
          arg, ret

vars == <<pc, toolName, rawArgs, parsed, pointsResp, seriesResp,
          fetchLog, analysis, responses, fault, exited, arg, ret>>

(***************************************************************************)
(* Bounds of the model.                                                    *)
(***************************************************************************)
MaxSkyLen == 4
MaxPrecipLen == 1
MaxPeriods == 2

(***************************************************************************)
(* JavaScript values.                                                      *)
(***************************************************************************)
Undefined == [t |-> "undefined"]
Null == [t |-> "null"]
NaN == [t |-> "nan"]
\* the whole number x
N(x) == [t |-> "number", v |-> 2 * x]
\* the number x + 0.5
Half(x) == [t |-> "number", v |-> 2 * x + 1]
IsNumber(x) == x.t = "number"
Min(a, b) == IF a < b THEN a ELSE b

\* Number(value) as z.coerce.number() applies it to the raw argument
CoerceNumber(raw) ==
    CASE raw.t = "number" -> raw
      [] raw.t = "null" -> N(0)
      [] OTHER -> NaN

(***************************************************************************)
(* Argument validation (zod).                                              *)
(***************************************************************************)
\* z.coerce.number().min(lo).max(hi) applied to one field: the issues raised
CheckNumber(path, raw, lo, hi) ==
    LET x == CoerceNumber(raw) IN
    IF ~IsNumber(x) THEN << [path |-> path, code |-> "invalid_type"] >>
    ELSE (IF x.v < 2 * lo THEN << [path |-> path, code |-> "too_small"] >> ELSE << >>)
         \o (IF x.v > 2 * hi THEN << [path |-> path, code |-> "too_big"] >> ELSE << >>)

\* the same validator stopping at the first invalid field of the object
FirstIssueOnly(issues) == IF issues = << >> THEN << >> ELSE << Head(issues) >>

\* zod collects the issues of every field of the object
CollectIssues(issues) == issues

coordinateArgumentParser == [count |-> "none", min |-> 0, max |-> 0, default |-> 0]
dailyForecastArgumentParser == [count |-> "periods", min |-> 1, max |-> 14, default |-> 6]
hourlyForecastArgumentParser == [count |-> "hours", min |-> 1, max |-> 24, default |-> 6]
clearSkyArgumentParser == [count |-> "horizonHours", min |-> 3, max |-> 24, default |-> 12]

\* the value of the operation's count field after .default(d)
CountValue(schema, raw) ==
    IF raw.t = "undefined" THEN N(schema.default) ELSE CoerceNumber(raw)

\* schema.safeParse(rawArgs)
safeParse(schema, args) ==
    LET issues == CollectIssues(
            CheckNumber("latitude", args.latitude, -90, 90)
            \o CheckNumber("longitude", args.longitude, -180, 180)
            \o (IF schema.count = "none" \/ args.count.t = "undefined" THEN << >>
                ELSE CheckNumber(schema.count, args.count, schema.min, schema.max)))
    IN IF issues # << >>
       THEN [success |-> FALSE, issues |-> issues]
       ELSE [success |-> TRUE,
             data |-> [latitude |-> CoerceNumber(args.latitude),
                       longitude |-> CoerceNumber(args.longitude),
                       count |-> IF schema.count = "none" THEN Undefined
                                 ELSE CountValue(schema, args.count)]]

\* the message zod attaches to an issue
IssueMessage(code) ==
    CASE code = "invalid_type" -> "Expected number, received nan"
      [] code = "too_small" -> "Number must be greater than or equal to the minimum"
      [] OTHER -> "Number must be less than or equal to the maximum"

\* error.issues.map(issue => path: message).join("; ")
formatZodIssues(issues) ==
    [i \in 1..Len(issues) |->
        [path |-> issues[i].path, message |-> IssueMessage(issues[i].code)]]

\* the outcome of a piece of code: a returned value or a thrown error
Return(v) == [kind |-> "return", value |-> v]
Throw(msg) == [kind |-> "throw", message |-> msg]

\* if (!result.success) throw new Error(formatZodIssues(result.error)); return result.data
ThrowUnlessSuccess(result) ==
    IF ~result.success
    THEN Throw([text |-> "zod issues", issues |-> formatZodIssues(result.issues)])
    ELSE Return(result.data)

parseArguments(schema, args) == ThrowUnlessSuccess(safeParse(schema, args))

(***************************************************************************)
(* Fetching.                                                               *)
(***************************************************************************)
\* what the network can answer to one request: the request fails, the
\* status is not a success (whatever the body), the body is not JSON, or a
\* success with a JSON body
NetworkFailure == [kind |-> "network"]
HttpFailure(status, body) == [kind |-> "http", status |-> status, body |-> body]
MalformedBody == [kind |-> "badjson"]
Ok(body) == [kind |-> "ok", body |-> body]
Pending == [kind |-> "pending"]

\* fetchJson with the status check left out
fetchJsonIgnoringStatus(url, resp) ==
    CASE resp.kind = "network" -> Throw([text |-> "fetch failed"])
      [] resp.kind = "badjson" -> Throw([text |-> "Unexpected token in JSON"])
      [] OTHER -> Return(resp.body)

fetchJson(url, resp) ==
    CASE resp.kind = "network" -> Throw([text |-> "fetch failed"])
      [] resp.kind = "http" ->
            Throw([text |-> "HTTP status when requesting url",
                   status |-> resp.status, url |-> url])
      [] resp.kind = "badjson" -> Throw([text |-> "Unexpected token in JSON"])
      [] OTHER -> Return(resp.body)

\* the URL getPointMetadata requests
PointsUrl(latitude, longitude) ==
    [base |-> "https://api.weather.gov/points/", lat |-> latitude.v, lon |-> longitude.v]

getPointMetadata(latitude, longitude, resp) ==
    fetchJson(PointsUrl(latitude, longitude), resp)

\* a handler suspended on the fetch of url
Await(what, url) == [kind |-> "await", what |-> what, url |-> url]

\* a property read that throws when the object is undefined
TypeError == Throw([text |-> "Cannot read properties of undefined"])

toTextResult(text, isError) ==
    [content |-> << [type |-> "text", text |-> text] >>, isError |-> isError]

(***************************************************************************)
(* Interval strings and dates.                                             *)
(*                                                                         *)
(* A validTime string, as split("/") leaves it, is the record              *)
(* [startIso, duration]: startIso is Instant(ms) (an instant new Date()    *)
(* can read) or Garbage; duration is Undefined (no "/") or                 *)
(* DurationText(tokens), the text after the "/" as a sequence of tokens,   *)
(* each Letter(c) or Digits(n), a maximal run of digits of value n.        *)
(***************************************************************************)
Instant(ms) == [t |-> "instant", ms |-> ms]
Garbage == [t |-> "garbage"]
Letter(c) == [t |-> "letter", c |-> c]
Digits(n) == [t |-> "digits", n |-> n]
DurationText(tokens) == [t |-> "text", tokens |-> tokens]
EmptyDuration == DurationText(<< >>)
ValidDate(ms) == [t |-> "date", ms |-> ms]
InvalidDate == [t |-> "invalid date"]

\* the result of RegExp.exec: null, or the four capture groups
NoMatch == [t |-> "nomatch"]
Duration(d, h, m, s) == [t |-> "P", days |-> d, hours |-> h, minutes |-> m, seconds |-> s]

\* the optional group (?:(\d+)c)? tried at position i: whether it takes part,
\* what it captures and where the match goes on
HasGroup(tokens, i, c) ==
    i + 1 <= Len(tokens) /\ tokens[i].t = "digits" /\ tokens[i + 1] = Letter(c)
Group(tokens, i, c) == IF HasGroup(tokens, i, c) THEN tokens[i] ELSE Undefined
After(tokens, i, c) == IF HasGroup(tokens, i, c) THEN i + 2 ELSE i

\* (?:(\d+)S)? and then $
ExecSeconds(tokens, i, d, h, m) ==
    IF After(tokens, i, "S") = Len(tokens) + 1
    THEN Duration(d, h, m, Group(tokens, i, "S")) ELSE NoMatch
\* (?:(\d+)M)?
ExecMinutes(tokens, i, d, h) ==
    ExecSeconds(tokens, After(tokens, i, "M"), d, h, Group(tokens, i, "M"))
\* (?:(\d+)H)?
ExecHours(tokens, i, d) ==
    ExecMinutes(tokens, After(tokens, i, "H"), d, Group(tokens, i, "H"))
\* (?:T ...)? and then $
ExecTime(tokens, i, d) ==
    IF i <= Len(tokens) /\ tokens[i] = Letter("T") THEN ExecHours(tokens, i + 1, d)
    ELSE IF i = Len(tokens) + 1 THEN Duration(d, Undefined, Undefined, Undefined)
    ELSE NoMatch
\* /^P(?:(\d+)D)?(?:T(?:(\d+)H)?(?:(\d+)M)?(?:(\d+)S)?)?$/u.exec(duration)
Exec(tokens) ==
    IF tokens # << >> /\ tokens[1] = Letter("P")
    THEN ExecTime(tokens, After(tokens, 2, "D"), Group(tokens, 2, "D"))
    ELSE NoMatch

\* Number(match[k] ?? 0)
GroupOr0(g) == IF g = Undefined THEN 0 ELSE g.n

\* the arithmetic of parseISODurationToMs on the capture groups
MsOfMatch(match) ==
    LET days == GroupOr0(match.days)
        hours == GroupOr0(match.hours)
        minutes == GroupOr0(match.minutes)
        seconds == GroupOr0(match.seconds)
    IN (((days * 24 + hours) * 60 + minutes) * 60 + seconds) * 1000

parseISODurationToMs(duration) ==
    IF Exec(duration.tokens) = NoMatch THEN 0 ELSE MsOfMatch(Exec(duration.tokens))

\* new Date(startIso)
NewDate(startIso) == IF startIso.t = "instant" THEN ValidDate(startIso.ms) ELSE InvalidDate

\* parseValidTime without the one-hour fallback
parseValidTimeWithoutFallback(validTime) ==
    LET start == NewDate(validTime.startIso)
        duration == validTime.duration
        durationMs == IF duration = Undefined \/ duration = EmptyDuration
                      THEN 0 ELSE parseISODurationToMs(duration)
    IN [start |-> start,
        end |-> IF start = InvalidDate THEN InvalidDate ELSE ValidDate(start.ms + durationMs)]

parseValidTime(validTime) ==
    LET start == NewDate(validTime.startIso)
        duration == validTime.duration
        durationMs == IF duration = Undefined \/ duration = EmptyDuration
                      THEN 0 ELSE parseISODurationToMs(duration)
        fallbackMs == 60 * 60 * 1000
        totalMs == IF durationMs > 0 THEN durationMs ELSE fallbackMs
    IN [start |-> start,
        end |-> IF start = InvalidDate THEN InvalidDate ELSE ValidDate(start.ms + totalMs)]

\* Date.prototype.toISOString: a RangeError on an invalid date
toISOString(date) ==
    IF date = InvalidDate THEN Throw([text |-> "Invalid time value"])
    ELSE Return([iso |-> date.ms])

formatTimeRange(validTime) ==
    LET range == parseValidTime(validTime)
        startLabel == toISOString(range.start)
        endLabel == toISOString(range.end)
    IN IF startLabel.kind = "throw" THEN startLabel
       ELSE IF endLabel.kind = "throw" THEN endLabel
       ELSE Return([start |-> startLabel.value, end |-> endLabel.value])

(***************************************************************************)
(* Visibility.  value.v is twice the meters; x.toFixed(k) rounds the       *)
(* quotient half up.                                                       *)
(***************************************************************************)
Str(s) == [t |-> "string", s |-> s]

\* formatVisibility without the kilometer tier
formatVisibilityInMilesOnly(value, uom) ==
    IF value = Null \/ value = Undefined THEN [text |-> "unknown"]
    ELSE IF uom = Str("wmoUnit:m")
    THEN IF value.v * 500 >= 10 * 1609344
         THEN [text |-> "mi", whole |-> (value.v * 1000 + 1609344) \div 3218688]
         ELSE [text |-> "mi", tenths |-> (value.v * 10000 + 1609344) \div 3218688]
    ELSE [text |-> "raw", number |-> value.v]

formatVisibility(value, uom) ==
    IF value = Null \/ value = Undefined THEN [text |-> "unknown"]
    ELSE IF uom = Str("wmoUnit:m")
    THEN IF value.v * 500 >= 10 * 1609344
         THEN [text |-> "mi", whole |-> (value.v * 1000 + 1609344) \div 3218688]
         ELSE IF value.v * 500 >= 1609344
         THEN [text |-> "mi", tenths |-> (value.v * 10000 + 1609344) \div 3218688]
         ELSE [text |-> "km", tenths |-> (value.v + 100) \div 200]
    ELSE [text |-> "raw", number |-> value.v]

(***************************************************************************)
(* The clear-sky window analysis (the body of handleClearSkyWindow after   *)
(* the grid data arrived).                                                 *)
(***************************************************************************)
\* series?.values ?? []
Values(series) == IF series = Undefined THEN << >> ELSE series.values
\* series?.uom
Uom(series) == IF series = Undefined THEN Undefined ELSE series.uom
\* array[i] with i counted from 0
At(array, i) == IF i + 1 <= Len(array) THEN array[i + 1] ELSE Undefined
\* sample?.value
ValueOf(sample) == IF sample = Undefined THEN Undefined ELSE sample.value
\* value ?? "?"
OrQuestionMark(value) == IF value = Null \/ value = Undefined THEN Str("?") ELSE value

\* a missing value counted as 0 instead of 100
ValueOr0(sample) ==
    IF IsNumber(ValueOf(sample)) THEN ValueOf(sample) ELSE N(0)

\* typeof sample?.value === "number" ? sample.value : 100
ValueOr100(sample) ==
    IF IsNumber(ValueOf(sample)) THEN ValueOf(sample) ELSE N(100)

\* skyValue + precipValue * 0.5 (the values are whole percents)
Score(skyValue, precipValue) ==
    [t |-> "number", v |-> skyValue.v + precipValue.v \div 2]

PositiveInfinity == [t |-> "infinity"]

\* the comparison replacing the incumbent on an equal score too
NotWorse(score, bestScore) == bestScore = PositiveInfinity \/ score.v <= bestScore.v

\* score < bestScore
Less(score, bestScore) == bestScore = PositiveInfinity \/ score.v < bestScore.v

\* Math.min(horizonHours, skySeries.length)
WindowLength(horizonHours, skySeries) ==
    [t |-> "number", v |-> Min(horizonHours.v, 2 * Len(skySeries))]

\* the locals of the loop before its first iteration
LoopStart ==
    [bestIndex |-> -1, bestScore |-> PositiveInfinity, rows |-> << >>,
     scores |-> << >>, thrown |-> Undefined]

RECURSIVE Loop(_, _, _)
\* for (let i = 0; i < windowLength; i += 1) { ... } from index i on
Loop(i, g, st) ==
    IF ~(2 * i < g.windowLength.v) THEN st
    ELSE LET sky == At(g.skySeries, i)
             precip == At(g.precipSeries, i)
             vis == At(g.visibilitySeries, i)
             skyValue == ValueOr100(sky)
             precipValue == ValueOr100(precip)
             score == Score(skyValue, precipValue)
             better == Less(score, st.bestScore)
             scored == [st EXCEPT !.bestScore = IF better THEN score ELSE @,
                                  !.bestIndex = IF better THEN i ELSE @,
                                  !.scores = Append(@, score)]
             label == IF sky = Undefined THEN TypeError ELSE formatTimeRange(sky.validTime)
         IN IF label.kind = "throw"
            THEN [scored EXCEPT !.thrown = label.message]
            ELSE Loop(i + 1, g,
                      [scored EXCEPT !.rows = Append(@,
                          [time |-> label.value,
                           sky |-> OrQuestionMark(sky.value),
                           precip |-> OrQuestionMark(ValueOf(precip)),
                           vis |-> formatVisibility(
                                      IF ValueOf(vis) = Undefined THEN Null ELSE ValueOf(vis),
                                      g.visibilityUnit)])])

\* the sky-cover check that never reports missing data
NeverEmpty(skySeries) == FALSE

\* !skySeries.length
IsEmpty(skySeries) == Len(skySeries) = 0

\* lines 454-468: the text returned after the loop, or the error it threw
Render(parsedArgs, windowLength, st) ==
    IF st.thrown # Undefined THEN Throw(st.thrown)
    ELSE Return(toTextResult(
            [text |-> "Clear sky analysis",
             latitude |-> parsedArgs.latitude.v,
             longitude |-> parsedArgs.longitude.v,
             hours |-> windowLength.v,
             insight |-> IF st.bestIndex >= 0
                         THEN [text |-> "Promising observing window: ",
                               highlight |-> st.rows[st.bestIndex + 1]]
                         ELSE [text |-> "No promising window identified within the requested horizon."],
             rows |-> st.rows], FALSE))

\* lines 424-428: the series and the window the loop runs over
LoopInput(horizonHours, properties) ==
    [skySeries |-> Values(properties.skyCover),
     precipSeries |-> Values(properties.probabilityOfPrecipitation),
     visibilitySeries |-> Values(properties.visibility),
     visibilityUnit |-> Uom(properties.visibility),
     windowLength |-> WindowLength(horizonHours, Values(properties.skyCover))]

\* the loop's variables when the code left the loop (Undefined when it
\* never entered it)
Locals(parsedArgs, gridData) ==
    IF gridData.properties = Undefined THEN Undefined
    ELSE IF IsEmpty(Values(gridData.properties.skyCover)) THEN Undefined
    ELSE Loop(0, LoopInput(parsedArgs.count, gridData.properties), LoopStart)

\* lines 420-468: what the handler does with the grid data
Analyze(parsedArgs, gridData) ==
    IF gridData.properties = Undefined THEN TypeError
    ELSE IF IsEmpty(Values(gridData.properties.skyCover))
    THEN Throw([text |-> "Sky cover data not available."])
    ELSE Render(parsedArgs,
                WindowLength(parsedArgs.count, Values(gridData.properties.skyCover)),
                Loop(0, LoopInput(parsedArgs.count, gridData.properties), LoopStart))

(***************************************************************************)
(* Forecast rendering.                                                     *)
(***************************************************************************)
\* periods.slice(0, limit): limit is truncated to an integer
Slice(periods, limit) == SubSeq(periods, 1, Min(Len(periods), limit.v \div 2))

RECURSIVE FormatPeriods(_)
\* trimmed.map(...): the start labels, or the RangeError of the first bad one
FormatPeriods(trimmed) ==
    IF trimmed = << >> THEN Return(<< >>)
    ELSE LET period == Head(trimmed)
             start == IF period.startTime = Undefined THEN Return(Undefined)
                      ELSE toISOString(NewDate(period.startTime))
             rest == FormatPeriods(Tail(trimmed))
         IN IF start.kind = "throw" THEN start
            ELSE IF rest.kind = "throw" THEN rest
            ELSE Return(<< [start |-> start.value] >> \o rest.value)

formatForecast(periods, limit, heading) ==
    LET trimmed == Slice(periods, limit) IN
    IF Len(trimmed) = 0
    THEN Return([heading |-> heading, text |-> "No forecast periods available."])
    ELSE LET items == FormatPeriods(trimmed) IN
         IF items.kind = "throw" THEN items
         ELSE Return([heading |-> heading, text |-> "periods", items |-> items.value])

\* a JSON array
Array(items) == [t |-> "array", items |-> items]

\* forecast.properties?.periods ?? []
PeriodsOf(forecast) ==
    IF forecast.properties = Undefined THEN << >>
    ELSE IF forecast.properties.periods = Undefined THEN << >>
    ELSE forecast.properties.periods.items

\* formatCoordinateSummary: a TypeError when the body has no properties
formatCoordinateSummary(points, latitude, longitude) ==
    IF points.properties = Undefined THEN TypeError
    ELSE Return([text |-> "Resolved", latitude |-> latitude.v, longitude |-> longitude.v,
                 forecast |-> points.properties.forecast,
                 forecastHourly |-> points.properties.forecastHourly,
                 forecastGridData |-> points.properties.forecastGridData])

(***************************************************************************)
(* The tool handlers.  A handler is evaluated with the responses received  *)
(* so far (Pending for a fetch not yet answered): it yields Await(...) at  *)
(* the await it is suspended on, and its result once it can finish.        *)
(***************************************************************************)
\* a catch block that returns the message without the error flag
CatchUnflagged(prefix, outcome) ==
    IF outcome.kind = "throw"
    THEN Return(toTextResult([prefix |-> prefix, message |-> outcome.message], FALSE))
    ELSE outcome

\* catch (error) { return toTextResult(`${prefix} ${message}`, true); }
Catch(prefix, outcome) ==
    IF outcome.kind = "throw"
    THEN Return(toTextResult([prefix |-> prefix, message |-> outcome.message], TRUE))
    ELSE outcome

\* a follow-up URL taken as present whatever the metadata holds
AlwaysPresent(url) == TRUE

\* the test !url of a follow-up URL negated: undefined and "" are missing
Present(url) == url # Undefined /\ url # Str("")

\* return toTextResult(value) unless the value could not be computed
TextResult(outcome) ==
    IF outcome.kind = "throw" THEN outcome ELSE Return(toTextResult(outcome.value, FALSE))

\* handleResolvePointMetadata once the point metadata is answered
ResolveAfterPoints(a, points) ==
    IF points.kind = "throw" THEN points
    ELSE TextResult(formatCoordinateSummary(points.value, a.latitude, a.longitude))

\* handleResolvePointMetadata once the arguments are parsed
ResolveAfterParse(a, pResp) ==
    IF a.kind = "throw" THEN a
    ELSE IF pResp = Pending
    THEN Await("points", PointsUrl(a.value.latitude, a.value.longitude))
    ELSE ResolveAfterPoints(a.value,
            getPointMetadata(a.value.latitude, a.value.longitude, pResp))

handleResolvePointMetadata(args, pResp, sResp) ==
    Catch("Unable to resolve metadata. ",
          ResolveAfterParse(parseArguments(coordinateArgumentParser, args), pResp))

\* a forecast handler once the forecast is answered
ForecastAfterSeries(a, heading, forecast) ==
    IF forecast.kind = "throw" THEN forecast
    ELSE TextResult(formatForecast(PeriodsOf(forecast.value), a.count, heading))

\* a forecast handler once the point metadata is answered
ForecastAfterPoints(a, key, gap, heading, points, sResp) ==
    IF points.kind = "throw" THEN points
    ELSE IF points.value.properties = Undefined THEN TypeError
    ELSE IF ~Present(points.value.properties[key]) THEN Throw([text |-> gap])
    ELSE IF sResp = Pending THEN Await(key, points.value.properties[key])
    ELSE ForecastAfterSeries(a, heading, fetchJson(points.value.properties[key], sResp))

\* the try block shared by handleDailyForecast and handleHourlyForecast,
\* once the arguments are parsed
ForecastAfterParse(a, key, gap, heading, pResp, sResp) ==
    IF a.kind = "throw" THEN a
    ELSE IF pResp = Pending
    THEN Await("points", PointsUrl(a.value.latitude, a.value.longitude))
    ELSE ForecastAfterPoints(a.value, key, gap, heading,
            getPointMetadata(a.value.latitude, a.value.longitude, pResp), sResp)

handleDailyForecast(args, pResp, sResp) ==
    Catch("Unable to fetch daily forecast. ",
        ForecastAfterParse(parseArguments(dailyForecastArgumentParser, args), "forecast",
            "Forecast URL not available for this coordinate (outside NWS coverage).",
            "NWS forecast for", pResp, sResp))

handleHourlyForecast(args, pResp, sResp) ==
    Catch("Unable to fetch hourly forecast. ",
        ForecastAfterParse(parseArguments(hourlyForecastArgumentParser, args),
            "forecastHourly",
            "Hourly forecast URL not available for this coordinate.",
            "Hourly forecast for", pResp, sResp))

\* handleClearSkyWindow once the grid data is answered
ClearSkyAfterSeries(a, gridData) ==
    IF gridData.kind = "throw" THEN gridData ELSE Analyze(a, gridData.value)

\* handleClearSkyWindow once the point metadata is answered
ClearSkyAfterPoints(a, points, sResp) ==
    IF points.kind = "throw" THEN points
    ELSE IF points.value.properties = Undefined THEN TypeError
    ELSE IF ~Present(points.value.properties.forecastGridData)
    THEN Throw([text |-> "Grid data URL not available for this coordinate."])
    ELSE IF sResp = Pending
    THEN Await("forecastGridData", points.value.properties.forecastGridData)
    ELSE ClearSkyAfterSeries(a,
            fetchJson(points.value.properties.forecastGridData, sResp))

\* handleClearSkyWindow once the arguments are parsed
ClearSkyAfterParse(a, pResp, sResp) ==
    IF a.kind = "throw" THEN a
    ELSE IF pResp = Pending
    THEN Await("points", PointsUrl(a.value.latitude, a.value.longitude))
    ELSE ClearSkyAfterPoints(a.value,
            getPointMetadata(a.value.latitude, a.value.longitude, pResp), sResp)

handleClearSkyWindow(args, pResp, sResp) ==
    Catch("Unable to analyze clear sky window. ",
          ClearSkyAfterParse(parseArguments(clearSkyArgumentParser, args), pResp, sResp))

toolHandlers ==
    {"resolve_point_metadata", "get_daily_forecast", "get_hourly_forecast",
     "get_clear_sky_window"}

\* toolHandlers[toolName](rawArgs)
RunHandler(name, args, pResp, sResp) ==
    CASE name = "resolve_point_metadata" -> handleResolvePointMetadata(args, pResp, sResp)
      [] name = "get_daily_forecast" -> handleDailyForecast(args, pResp, sResp)
      [] name = "get_hourly_forecast" -> handleHourlyForecast(args, pResp, sResp)
      [] OTHER -> handleClearSkyWindow(args, pResp, sResp)

\* catch (error) of the request handler
CatchToolFailure(name, out) ==
    IF out.kind = "throw"
    THEN Return(toTextResult([prefix |-> "Tool failed: ", name |-> name,
                              message |-> out.message], TRUE))
    ELSE out

\* the CallToolRequestSchema handler
CallToolHandler(name, args, pResp, sResp) ==
    IF name \notin toolHandlers
    THEN Return(toTextResult([prefix |-> "Unknown tool: ", name |-> name], TRUE))
    ELSE CatchToolFailure(name, RunHandler(name, args, pResp, sResp))

(***************************************************************************)
(* The requests and the answers of the network the model explores.         *)
(***************************************************************************)
SeqsUpTo(S, n) == UNION {[1..k -> S] : k \in 0..n}

ToolNames == toolHandlers \cup {"get_moon_phase"}
Latitudes == {Undefined, N(40), N(200)}
Longitudes == {Undefined, N(-75), N(-181)}
Counts == {Undefined, N(0), N(3), Half(3), N(24), N(50)}
\* every combination of these, and one request with a null latitude
RawArguments ==
    [latitude : Latitudes, longitude : Longitudes, count : Counts]
    \cup {[latitude |-> Null, longitude |-> N(-75), count |-> Undefined]}

Urls(forecast, hourly, grid) ==
    [properties |-> [forecast |-> forecast, forecastHourly |-> hourly,
                     forecastGridData |-> grid]]
AllUrls == Urls(Str("/forecast"), Str("/forecast/hourly"), Str("/gridpoints"))
PointsBodies ==
    {AllUrls,
     Urls(Undefined, Undefined, Undefined),
     Urls(Str("/forecast"), Str(""), Undefined),
     [properties |-> Undefined]}
PointsResponses ==
    {NetworkFailure, HttpFailure("404", AllUrls), MalformedBody}
    \cup {Ok(b) : b \in PointsBodies}

\* "PT1H", the duration of an hourly grid sample
OneHour == DurationText(<< Letter("P"), Letter("T"), Digits(1), Letter("H") >>)
GoodTime == [startIso |-> Instant(0), duration |-> OneHour]
BadTime == [startIso |-> Garbage, duration |-> OneHour]
SkySamples ==
    {[validTime |-> GoodTime, value |-> v] : v \in {Null, N(10), N(30)}}
    \cup {[validTime |-> BadTime, value |-> N(10)]}
PrecipSamples == {[validTime |-> GoodTime, value |-> v] : v \in {Null, N(0), N(40)}}
Series(values) == [uom |-> Str("wmoUnit:percent"), values |-> values]
SkySeries == {Undefined} \cup {Series(v) : v \in SeqsUpTo(SkySamples, MaxSkyLen)}
PrecipSeries == {Undefined} \cup {Series(v) : v \in SeqsUpTo(PrecipSamples, MaxPrecipLen)}
VisibilitySeries ==
    {Undefined,
     [uom |-> Str("wmoUnit:m"),
      values |-> << [validTime |-> GoodTime, value |-> N(16000)],
                    [validTime |-> GoodTime, value |-> Null] >>]}
GridData(s, p, v) ==
    [properties |-> [skyCover |-> s, probabilityOfPrecipitation |-> p, visibility |-> v]]

Periods == {[startTime |-> t] : t \in {Undefined, Instant(0), Garbage}}
ForecastBodies ==
    {[properties |-> Undefined], [properties |-> [periods |-> Undefined]]}
    \cup {[properties |-> [periods |-> Array(ps)]] : ps \in SeqsUpTo(Periods, MaxPeriods)}

\* the ways the second fetch of an operation can fail
SeriesFailures ==
    {NetworkFailure, HttpFailure("503", [properties |-> Undefined]), MalformedBody}

(***************************************************************************)
(* The server as a state machine.                                          *)
(***************************************************************************)
Init ==
    /\ pc = "starting"
    /\ toolName = ""
    /\ rawArgs = Undefined
    /\ parsed = Undefined
    /\ pointsResp = Pending
    /\ seriesResp = Pending
    /\ fetchLog = << >>
    /\ analysis = Undefined
    /\ responses = << >>
    /\ fault = FALSE
    /\ exited = FALSE
    /\ arg = Undefined
    /\ ret = Undefined

\* main(): server.connect(transport) succeeds
Connect ==
    /\ pc = "starting"
    /\ pc' = "idle"
    /\ UNCHANGED <<toolName, rawArgs, parsed, pointsResp, seriesResp, fetchLog,
                   analysis, responses, fault, exited, arg, ret>>

\* main().catch: process.exit(1) when the transport cannot be connected
ConnectFails ==
    /\ pc = "starting"
    /\ pc' = "exited"
    /\ exited' = TRUE
    /\ UNCHANGED <<toolName, rawArgs, parsed, pointsResp, seriesResp, fetchLog,
                   analysis, responses, fault, arg, ret>>

\* the request handler ran up to its next await or to its end: out is what it yielded
Advance(out, log) ==
    IF out.kind = "await"
    THEN /\ pc' = (IF out.what = "points" THEN "awaitPoints" ELSE "awaitSeries")
         /\ fetchLog' = Append(log, [op |-> "begin", what |-> out.what])
         /\ UNCHANGED <<responses, fault>>
    ELSE /\ pc' = "done"
         /\ fetchLog' = log
         /\ responses' = IF out.kind = "return" THEN Append(responses, out.value)
                          ELSE responses
         /\ fault' = (out.kind = "throw")

\* the schema a tool validates its arguments against
ParserOf(name) ==
    CASE name = "get_daily_forecast" -> dailyForecastArgumentParser
      [] name = "get_hourly_forecast" -> hourlyForecastArgumentParser
      [] name = "get_clear_sky_window" -> clearSkyArgumentParser
      [] OTHER -> coordinateArgumentParser

\* the handler's local parsed, once parseArguments returned
ParsedData(result) == IF result.success THEN result.data ELSE Undefined

\* a tools/call request arrives: the handler runs up to its first await
CallTool(name, args) ==
    /\ pc = "idle"
    /\ toolName' = name
    /\ rawArgs' = args
    /\ parsed' = IF name \in toolHandlers THEN ParsedData(safeParse(ParserOf(name), args))
                 ELSE Undefined
    /\ Advance(CallToolHandler(name, args, Pending, Pending), fetchLog)
    /\ UNCHANGED <<pointsResp, seriesResp, analysis, exited, arg, ret>>

\* the point-metadata fetch is answered: the handler resumes
PointsArrive(resp) ==
    /\ pc = "awaitPoints"
    /\ pointsResp' = resp
    /\ Advance(CallToolHandler(toolName, rawArgs, resp, Pending),
               Append(fetchLog, [op |-> "end", what |-> "points", result |-> resp.kind]))
    /\ UNCHANGED <<toolName, rawArgs, parsed, seriesResp, analysis, exited, arg, ret>>

\* bestIndex, bestScore, rows and the scores computed, as the loop left them
ObservedLocals(st) ==
    IF st = Undefined THEN Undefined
    ELSE [bestIndex |-> st.bestIndex, bestScore |-> st.bestScore, rows |-> st.rows,
          scores |-> st.scores]

\* the forecast or grid-data fetch is answered: the handler resumes and ends
SeriesArrive(resp) ==
    /\ pc = "awaitSeries"
    /\ seriesResp' = resp
    /\ analysis' = IF toolName = "get_clear_sky_window" /\ resp.kind = "ok"
                   THEN ObservedLocals(Locals(parsed, resp.body)) ELSE Undefined
    /\ Advance(CallToolHandler(toolName, rawArgs, pointsResp, resp),
               Append(fetchLog, [op |-> "end", what |-> fetchLog[Len(fetchLog)].what,
                                 result |-> resp.kind]))
    /\ UNCHANGED <<toolName, rawArgs, parsed, pointsResp, exited, arg, ret>>

\* the invocation is over; the server waits for the next request, keeping nothing
NextRequest ==
    /\ pc = "done"
    /\ pc' = "idle"
    /\ toolName' = ""
    /\ rawArgs' = Undefined
    /\ parsed' = Undefined
    /\ pointsResp' = Pending
    /\ seriesResp' = Pending
    /\ fetchLog' = << >>
    /\ analysis' = Undefined
    /\ responses' = << >>
    /\ fault' = FALSE
    /\ UNCHANGED <<exited, arg, ret>>

\* any request the caller can send
Request ==
    pc = "idle" /\ \E name \in ToolNames, args \in RawArguments : CallTool(name, args)

\* any answer of the network to the point-metadata fetch
PointsAnswer ==
    pc = "awaitPoints" /\ \E resp \in PointsResponses : PointsArrive(resp)

\* any answer of the network to the dependent fetch
SeriesAnswer ==
    /\ pc = "awaitSeries"
    /\ \/ \E resp \in SeriesFailures : SeriesArrive(resp)
       \/ /\ toolName # "get_clear_sky_window"
          /\ \E b \in ForecastBodies : SeriesArrive(Ok(b))
       \/ /\ toolName = "get_clear_sky_window"
          /\ \/ SeriesArrive(Ok([properties |-> Undefined]))
             \/ \E s \in SkySeries, p \in PrecipSeries, v \in VisibilitySeries :
                   SeriesArrive(Ok(GridData(s, p, v)))

Next ==
    \/ Connect
    \/ ConnectFails
    \/ Request
    \/ PointsAnswer
    \/ SeriesAnswer
    \/ NextRequest

Spec == Init /\ [][Next]_vars

(***************************************************************************)
(* The formatting helpers on their own: arg is a call of parseValidTime or *)
(* of formatVisibility on any input, ret is what the call returned.        *)
(***************************************************************************)
\* the largest value of a component of a duration
MaxComponent == 2
\* the visibilities go up to 250 * MaxVisibilitySteps meters
MaxVisibilitySteps == 80

\* a capture group of the duration: absent, or its digits
Components == {Undefined} \cup {Digits(n) : n \in 0..MaxComponent}

\* the text "nc" of a component, nothing when the component is absent
Part(g, c) == IF g = Undefined THEN << >> ELSE << g, Letter(c) >>

\* the text P[nD][T[nH][nM][nS]]
DurationString(d, h, m, s, withT) ==
    << Letter("P") >> \o Part(d, "D") \o (IF withT THEN << Letter("T") >> ELSE << >>)
    \o Part(h, "H") \o Part(m, "M") \o Part(s, "S")

WellFormedDurations ==
    {DurationString(d, h, m, s, TRUE) : d \in Components, h \in Components,
                                        m \in Components, s \in Components}
    \cup {DurationString(d, Undefined, Undefined, Undefined, FALSE) : d \in Components}

\* texts the pattern rejects: without the leading P, with a week designator,
\* with a time component outside the T part, out of order, with digits that
\* no designator follows, in lower case, with a group twice
MalformedDurations ==
    {Tail(w) : w \in WellFormedDurations}
    \cup {w \o << Letter("W") >> : w \in WellFormedDurations}
    \cup {<< Letter("P"), Digits(1), Letter("W") >>,
          << Letter("P"), Digits(1), Letter("H") >>,
          << Letter("P"), Letter("T"), Digits(1), Letter("M"), Digits(1), Letter("H") >>,
          << Letter("P"), Letter("T"), Digits(1) >>,
          << Letter("P"), Digits(1), Letter("T"), Digits(1), Letter("H") >>,
          << Letter("p"), Digits(1), Letter("D") >>,
          << Letter("P"), Digits(1), Letter("D"), Digits(1), Letter("D") >>,
          << Letter("P"), Letter("T"), Letter("T"), Digits(1), Letter("S") >>,
          << Letter("P"), Digits(1), Letter("D"), Digits(1), Letter("H") >>}

IntervalStrings ==
    {[startIso |-> st, duration |-> du] :
        st \in {Instant(0), Instant(1000), Garbage},
        du \in {Undefined}
               \cup {DurationText(w) : w \in WellFormedDurations \cup MalformedDurations}}

VisibilityValues ==
    {Null, Undefined}
    \cup {N(250 * k) : k \in 0..MaxVisibilitySteps}
    \cup {N(1609), N(1610), N(16093), N(16094), Half(1609), Half(16093)}
UnitTags == {Str("wmoUnit:m"), Str("wmoUnit:km"), Undefined}

ParseValidTimeCall(validTime) == [fn |-> "parseValidTime", validTime |-> validTime]
FormatVisibilityCall(value, uom) == [fn |-> "formatVisibility", value |-> value, uom |-> uom]

InitHelpers ==
    /\ pc = "helper"
    /\ toolName = ""
    /\ rawArgs = Undefined
    /\ parsed = Undefined
    /\ pointsResp = Pending
    /\ seriesResp = Pending
    /\ fetchLog = << >>
    /\ analysis = Undefined
    /\ responses = << >>
    /\ fault = FALSE
    /\ exited = FALSE
    /\ arg \in {ParseValidTimeCall(v) : v \in IntervalStrings}
               \cup {FormatVisibilityCall(v, u) : v \in VisibilityValues, u \in UnitTags}
    /\ ret = Undefined

CallParseValidTime ==
    /\ arg.fn = "parseValidTime"
    /\ ret = Undefined
    /\ ret' = parseValidTime(arg.validTime)
    /\ UNCHANGED <<pc, toolName, rawArgs, parsed, pointsResp, seriesResp, fetchLog,
                   analysis, responses, fault, exited, arg>>

CallFormatVisibility ==
    /\ arg.fn = "formatVisibility"
    /\ ret = Undefined
    /\ ret' = formatVisibility(arg.value, arg.uom)
    /\ UNCHANGED <<pc, toolName, rawArgs, parsed, pointsResp, seriesResp, fetchLog,
                   analysis, responses, fault, exited, arg>>

NextHelpers ==
    \/ CallParseValidTime
    \/ CallFormatVisibility

SpecHelpers == InitHelpers /\ [][NextHelpers]_vars

(***************************************************************************)
(* Vocabulary of the properties, stated on the request and on the answers  *)
(* of the network, not on the handlers' code.                              *)
(***************************************************************************)
Finished == pc = "done" /\ Len(responses) = 1
Result == responses[1]
Text == Result.content[1].text
IsClearSky == toolName = "get_clear_sky_window"
\* the invocation ended with a rendered analysis
AnalysisDone == Finished /\ IsClearSky /\ ~Result.isError

\* a field the caller left out although required, or gave outside its range
OutOfRange(raw, lo, hi) == raw.t = "number" /\ (raw.v < 2 * lo \/ raw.v > 2 * hi)
CountField(name) ==
    CASE name = "get_daily_forecast" -> "periods"
      [] name = "get_hourly_forecast" -> "hours"
      [] name = "get_clear_sky_window" -> "horizonHours"
      [] OTHER -> "none"
CountLow(name) == IF name = "get_clear_sky_window" THEN 3 ELSE 1
CountHigh(name) == IF name = "get_daily_forecast" THEN 14 ELSE 24
CountDefault(name) == IF name = "get_clear_sky_window" THEN 12 ELSE 6
InvalidFields(name, args) ==
    {f \in {"latitude"} : args.latitude = Undefined \/ OutOfRange(args.latitude, -90, 90)}
    \cup {f \in {"longitude"} :
            args.longitude = Undefined \/ OutOfRange(args.longitude, -180, 180)}
    \cup {f \in {CountField(name)} :
            f # "none" /\ OutOfRange(args.count, CountLow(name), CountHigh(name))}
NamedFields(message) == {message.issues[i].path : i \in 1..Len(message.issues)}

\* the fetches the log shows begun after the point-metadata fetch
DependentBegun ==
    {j \in 1..Len(fetchLog) : fetchLog[j].op = "begin" /\ fetchLog[j].what # "points"}

\* the series of the grid data received, [] when absent
GridReceived == seriesResp.kind = "ok" /\ seriesResp.body.properties # Undefined
SkyIn == IF seriesResp.body.properties.skyCover = Undefined THEN << >>
         ELSE seriesResp.body.properties.skyCover.values
PrecipIn == IF seriesResp.body.properties.probabilityOfPrecipitation = Undefined THEN << >>
            ELSE seriesResp.body.properties.probabilityOfPrecipitation.values
\* twice the percent of row i (from 0) that enters the score: 100 when missing
PercentIn(series, i) ==
    IF i + 1 > Len(series) THEN 200
    ELSE IF series[i + 1].value.t = "number" THEN series[i + 1].value.v ELSE 200
\* four times sky[i] + 0.5 * precip[i]
Score4(i) == 2 * PercentIn(SkyIn, i) + PercentIn(PrecipIn, i)
\* the rows of the window: i with i < min(H, L)
Window == {i \in 0..(Len(SkyIn) - 1) : 2 * i < parsed.count.v}
AllTimesWellFormed == \A i \in 1..Len(SkyIn) : SkyIn[i].validTime.startIso.t = "instant"

\* the follow-up URL the operation needs, as the metadata gave it
NeededUrl ==
    CASE toolName = "get_daily_forecast" -> pointsResp.body.properties.forecast
      [] toolName = "get_hourly_forecast" -> pointsResp.body.properties.forecastHourly
      [] OTHER -> pointsResp.body.properties.forecastGridData
UrlMissing ==
    /\ toolName \in {"get_daily_forecast", "get_hourly_forecast", "get_clear_sky_window"}
    /\ pointsResp.kind = "ok"
    /\ pointsResp.body.properties # Undefined
    /\ NeededUrl \in {Undefined, Str("")}
GapMessage(name) ==
    CASE name = "get_daily_forecast" ->
            "Forecast URL not available for this coordinate (outside NWS coverage)."
      [] name = "get_hourly_forecast" ->
            "Hourly forecast URL not available for this coordinate."
      [] OTHER -> "Grid data URL not available for this coordinate."
TransportFailed == pointsResp.kind \in {"network", "http"} \/ seriesResp.kind \in {"network", "http"}

(***************************************************************************)
(* C1: the recommended row of a rendered analysis is the row of smallest   *)
(* index among those of minimal score sky + 0.5 * precip: no analysed row  *)
(* scores strictly lower, and no earlier row scores the same.              *)
(***************************************************************************)
C1_EarliestMinimum ==
    AnalysisDone =>
        LET n == Len(Text.rows)
            b == analysis.bestIndex
        IN /\ b \in 0..(n - 1)
           /\ Text.insight.text = "Promising observing window: "
           /\ Text.insight.highlight = Text.rows[b + 1]
           /\ 2 * analysis.bestScore.v = Score4(b)
           /\ \A j \in 0..(n - 1) :
                 /\ Score4(b) <= Score4(j)
                 /\ (j < b => Score4(j) > Score4(b))

\* an analysis whose minimum is first reached at index 1 and met again later
C1_Witness ==
    /\ AnalysisDone
    /\ analysis.bestIndex = 1
    /\ Score4(0) > Score4(1)
    /\ \E j \in 2..(Len(Text.rows) - 1) : Score4(j) = Score4(1)

(***************************************************************************)
(* C2: a rendered analysis for horizon H over a sky-cover series of length *)
(* L has exactly min(H, L) rows, whatever the other two series hold.       *)
(***************************************************************************)
C2_RowCount ==
    AnalysisDone =>
        2 * Len(Text.rows) = Min(parsed.count.v, 2 * Len(SkyIn))

(***************************************************************************)
(* C3: a call of a known tool with a missing required field or a field out *)
(* of range ends before any fetch is issued, with one failure message that *)
(* names every invalid field.                                              *)
(***************************************************************************)
C3_ValidationAtomic ==
    (toolName \in toolHandlers /\ InvalidFields(toolName, rawArgs) # {}) =>
        /\ Finished
        /\ fetchLog = << >>
        /\ pointsResp = Pending /\ seriesResp = Pending
        /\ Result.isError
        /\ Text.message.text = "zod issues"
        /\ InvalidFields(toolName, rawArgs) \subseteq NamedFields(Text.message)

\* latitude = 200 together with hours = 50: both are named
C3_Witness ==
    /\ Finished
    /\ toolName = "get_hourly_forecast"
    /\ rawArgs.latitude = N(200) /\ rawArgs.longitude = N(-75) /\ rawArgs.count = N(50)
    /\ Result.isError
    /\ NamedFields(Text.message) = {"latitude", "hours"}

\* the conditions under which an invocation that ended has failed
BadTimeInWindow ==
    \E i \in Window : SkyIn[i + 1].validTime.startIso.t # "instant"
BadStartInForecast ==
    /\ seriesResp.body.properties # Undefined
    /\ seriesResp.body.properties.periods # Undefined
    /\ LET ps == seriesResp.body.properties.periods.items IN
       \E i \in 1..Len(ps) : i <= parsed.count.v \div 2 /\ ps[i].startTime = Garbage
Failed ==
    \/ toolName \notin toolHandlers
    \/ InvalidFields(toolName, rawArgs) # {}
    \/ pointsResp.kind \in {"network", "http", "badjson"}
    \/ (pointsResp.kind = "ok" /\ pointsResp.body.properties = Undefined)
    \/ UrlMissing
    \/ seriesResp.kind \in {"network", "http", "badjson"}
    \/ (seriesResp.kind = "ok" /\ IsClearSky
          /\ (~GridReceived \/ SkyIn = << >> \/ BadTimeInWindow))
    \/ (seriesResp.kind = "ok" /\ ~IsClearSky /\ BadStartInForecast)

C5_FetchOrder ==
    \A j \in DependentBegun :
        /\ \E i \in 1..(j - 1) :
              fetchLog[i] = [op |-> "end", what |-> "points", result |-> "ok"]
        /\ \A i \in 1..Len(fetchLog) :
              (fetchLog[i].op = "end" /\ fetchLog[i].what = "points")
                  => fetchLog[i].result = "ok"

\* a dependent fetch has begun
C5_Witness ==
    /\ pc = "awaitSeries"
    /\ DependentBegun # {}
    /\ toolName = "get_daily_forecast"

(***************************************************************************)
(* C6: a malformed start instant in a sky-cover sample does not make the   *)
(* analysis fail: with grid data received and a sky-cover series that is   *)
(* not empty, the analysis is rendered, with a row for every sample of the *)
(* window and a recommendation.                                            *)
(***************************************************************************)
C6_MalformedTimeTolerated ==
    (pc = "done" /\ IsClearSky /\ GridReceived /\ SkyIn # << >>) =>
        /\ Finished
        /\ ~Result.isError
        /\ Len(Text.rows) = Cardinality(Window)
        /\ Text.insight.text = "Promising observing window: "

(***************************************************************************)
(* C7: once validation has passed, the operation's count parameter is an   *)
(* integer within its inclusive range (periods 1..14, hours 1..24,         *)
(* horizonHours 3..24), and is the default (6, 6, 12) when omitted.        *)
(***************************************************************************)
C7_CountIntegerInRange ==
    (parsed # Undefined /\ CountField(toolName) # "none") =>
        /\ parsed.count.t = "number"
        /\ parsed.count.v % 2 = 0
        /\ parsed.count.v >= 2 * CountLow(toolName)
        /\ parsed.count.v <= 2 * CountHigh(toolName)
        /\ (rawArgs.count = Undefined => parsed.count.v = 2 * CountDefault(toolName))

(***************************************************************************)
(* C8: the score of every analysed row i pairs index i of the sky-cover    *)
(* and precipitation series and counts a missing value (series absent or   *)
(* too short, or a null sample) as exactly 100; with well-formed times, no *)
(* missing value makes the analysis fail.                                  *)
(***************************************************************************)
C8_MissingCountsAs100 ==
    (pc = "done" /\ IsClearSky /\ GridReceived /\ SkyIn # << >>) =>
        /\ \A i \in 1..Len(analysis.scores) : 2 * analysis.scores[i].v = Score4(i - 1)
        /\ AllTimesWellFormed =>
              /\ Finished
              /\ ~Result.isError
              /\ Len(analysis.scores) = Len(Text.rows)
              /\ Len(analysis.scores) >= 1

\* a rendered analysis with a null sky-cover value and no precipitation
\* series at all: the row scores 100 + 0.5 * 100
C8_Witness ==
    /\ AnalysisDone
    /\ seriesResp.body.properties.probabilityOfPrecipitation = Undefined
    /\ \E i \in 1..Len(SkyIn) :
          /\ SkyIn[i].value = Null
          /\ i <= Len(analysis.scores)
          /\ analysis.scores[i] = [t |-> "number", v |-> 300]

(***************************************************************************)
(* C9: with an empty or absent sky-cover series the operation fails with   *)
(* "Sky cover data not available." and never renders the no-promising-     *)
(* window message; every rendered analysis has at least one row and        *)
(* carries a recommendation.                                               *)
(***************************************************************************)
C9_NoDataIsDistinct ==
    /\ (pc = "done" /\ IsClearSky /\ GridReceived /\ SkyIn = << >>) =>
          /\ Finished
          /\ Result.isError
          /\ Text.message = [text |-> "Sky cover data not available."]
    /\ AnalysisDone =>
          /\ Len(Text.rows) >= 1
          /\ analysis.bestIndex >= 0
          /\ Text.insight.text = "Promising observing window: "

\* the grid data came without a sky-cover series
C9_Witness ==
    /\ Finished /\ IsClearSky /\ GridReceived
    /\ seriesResp.body.properties.skyCover = Undefined
    /\ Text.message = [text |-> "Sky cover data not available."]

(***************************************************************************)
(* C10: when the point metadata lacks the follow-up URL the operation      *)
(* needs, no second fetch is issued and the response is a failure whose    *)
(* message is the operation's own coverage-gap message; no response to a   *)
(* failed request or a non-success status carries such a message.          *)
(***************************************************************************)
C10_CoverageGap ==
    /\ (pc # "awaitPoints" /\ UrlMissing) =>
          /\ Finished
          /\ DependentBegun = {}
          /\ seriesResp = Pending
          /\ Result.isError
          /\ Text.message = [text |-> GapMessage(toolName)]
          /\ \A other \in toolHandlers \ {toolName, "resolve_point_metadata"} :
                GapMessage(other) # GapMessage(toolName)
    /\ (Finished /\ TransportFailed) =>
          \A name \in toolHandlers : Text.message.text # GapMessage(name)

\* the hourly forecast asked where the metadata has an empty hourly URL
C10_Witness ==
    /\ Finished
    /\ toolName = "get_hourly_forecast"
    /\ UrlMissing
    /\ NeededUrl = Str("")
    /\ Text.message.text = "Hourly forecast URL not available for this coordinate."

(***************************************************************************)
(* Vocabulary of the properties of the formatting helpers.                 *)
(***************************************************************************)
ParsedInterval == arg # Undefined /\ arg.fn = "parseValidTime" /\ ret # Undefined
StartRepresentable == arg.validTime.startIso.t = "instant"
HasDurationPart == arg.validTime.duration # Undefined
\* the value a component of a duration stands for
Amount(g) == IF g = Undefined THEN 0 ELSE g.n
\* the milliseconds a duration of d days, h hours, m minutes, s seconds encodes
EncodedMs(d, h, m, s) ==
    Amount(d) * 86400000 + Amount(h) * 3600000 + Amount(m) * 60000 + Amount(s) * 1000
\* the duration part spells d, h, m, s in the PnDTnHnMnS grammar
Spells(d, h, m, s) ==
    /\ HasDurationPart
    /\ \E withT \in BOOLEAN :
          /\ withT \/ (h = Undefined /\ m = Undefined /\ s = Undefined)
          /\ arg.validTime.duration.tokens = DurationString(d, h, m, s, withT)
\* the duration part is in the grammar and encodes more than nothing
PositiveDuration ==
    \E d \in Components, h \in Components, m \in Components, s \in Components :
        Spells(d, h, m, s) /\ EncodedMs(d, h, m, s) > 0
IntervalLength == ret.end.ms - ret.start.ms

FormattedVisibility == arg # Undefined /\ arg.fn = "formatVisibility" /\ ret # Undefined
Distance(a, b) == IF a >= b THEN a - b ELSE b - a
\* rendered is the quotient num / den rounded to the nearest integer
Nearest(rendered, num, den) == 2 * Distance(rendered * den, num) <= den
\* miles = meters / 1609.344 as the fraction MilesNum / MilesDen (arg.value.v is twice the meters)
MilesNum == arg.value.v * 500
MilesDen == 1609344

\* C11: for every interval string whose start is a representable instant,
\* parseValidTime returns the start it read and an end later than it; the
\* distance from start to end is the duration the string encodes,
\* (((days*24 + hours)*60 + minutes)*60 + seconds)*1000 ms, when the duration
\* part is in the PnDTnHnMnS grammar and encodes more than 0, and is exactly
\* 3,600,000 ms when there is no "/", the grammar does not match or the
\* duration encodes 0.
C11_EndAfterStart ==
    (ParsedInterval /\ StartRepresentable) =>
        /\ ret.start = ValidDate(arg.validTime.startIso.ms)
        /\ ret.end.t = "date"
        /\ ret.end.ms > ret.start.ms
        /\ IF PositiveDuration
           THEN \A d \in Components, h \in Components, m \in Components, s \in Components :
                    Spells(d, h, m, s) => IntervalLength = EncodedMs(d, h, m, s)
           ELSE IntervalLength = 3600000

\* a days-only duration was parsed and gave days * 86,400,000 ms
C11_Witness ==
    /\ ParsedInterval /\ StartRepresentable
    /\ Spells(Digits(MaxComponent), Undefined, Undefined, Undefined)
    /\ IntervalLength = MaxComponent * 86400000

\* C12: formatVisibility renders a null or missing value as "unknown";
\* otherwise, with the unit tag "wmoUnit:m", it renders whole miles when
\* miles >= 10, miles to one decimal when 1 <= miles < 10 and kilometers to
\* one decimal when miles < 1; with any other unit tag it renders the raw
\* number with no suffix.  16,000 m gives "9.9 mi" and 500 m gives "0.5 km".
C12_VisibilityTiers ==
    FormattedVisibility =>
        /\ IF arg.value \in {Null, Undefined} THEN ret = [text |-> "unknown"]
           ELSE IF arg.uom # Str("wmoUnit:m")
           THEN ret = [text |-> "raw", number |-> arg.value.v]
           ELSE IF MilesNum >= 10 * MilesDen
           THEN /\ DOMAIN ret = {"text", "whole"}
                /\ ret.text = "mi"
                /\ Nearest(ret.whole, MilesNum, MilesDen)
           ELSE IF MilesNum >= MilesDen
           THEN /\ DOMAIN ret = {"text", "tenths"}
                /\ ret.text = "mi"
                /\ Nearest(ret.tenths, 10 * MilesNum, MilesDen)
           ELSE /\ DOMAIN ret = {"text", "tenths"}
                /\ ret.text = "km"
                /\ Nearest(ret.tenths, arg.value.v, 200)
        /\ (arg.value = N(16000) /\ arg.uom = Str("wmoUnit:m"))
               => ret = [text |-> "mi", tenths |-> 99]
        /\ (arg.value = N(500) /\ arg.uom = Str("wmoUnit:m"))
               => ret = [text |-> "km", tenths |-> 5]

\* 500 m in meters was rendered in the kilometer tier
C12_Witness ==
    /\ FormattedVisibility
    /\ arg.value = N(500) /\ arg.uom = Str("wmoUnit:m")
    /\ ret = [text |-> "km", tenths |-> 5]

====
